---- MODULE Spec2Model ----
(***************************************************************************)
(* A model of the resilience-and-settlement subsystem of valyr-hub:        *)
(*   - CreditManagementService (src/src/services/credit-management.ts):    *)
(*     the credit ledger over the userCredit row and the creditTransaction *)
(*     rows of one tenant, with the Redis balance cache;                   *)
(*   - UsageTrackingMiddleware (src/unnamed/part_003): the per-request     *)
(*     pre-check and settlement;                                           *)
(*   - CircuitBreaker (src/src/utils/circuit-breaker.ts).                  *)
(* Amounts are exact decimals in the code (Prisma Decimal); the model      *)
(* counts them in whole credit units.                                      *)
(***************************************************************************)
EXTENDS Integers, Sequences, FiniteSets, TLC

(***************************************************************************)
(* Bounds of the model.                                                    *)
(***************************************************************************)
\* Amounts of a call are 5, 10, ... 5 * MaxUnits credit units.
MaxUnits == 3
\* Ledger calls and requests started in one behaviour.
MaxOps == 3

\* Two concurrent callers: event-loop tasks, or processes sharing the database.
Procs == {1, 2}
Amounts == {5 * k : k \in 1..MaxUnits}

VARIABLES
    userCredit,          \* the committed userCredit row of the tenant
    creditTransactions,  \* the committed creditTransaction rows, oldest first
    balanceCache,        \* Redis key credits:balance:<userId>
    rowLock,             \* the caller whose open transaction wrote the row (0: none)
    pc,                  \* where each caller is
    arg,                 \* the amount of the caller's ledger call
    snap,                \* the userCredit row the caller's call has read
    outcome,             \* how the caller's last ledger call ended
    ret,                 \* where the caller continues when its ledger call returns
    reference,           \* transactionData.reference of the caller's call (0: none)
    hist,                \* history: accepted credits, accepted deducts, accepted calls
    opsStarted,          \* calls started so far
    options,             \* BillingMiddlewareOptions of the middleware
    request,             \* the request each caller is serving
    served               \* history: ids of billable requests whose post-handler ended

ledgerVars == <<userCredit, creditTransactions, balanceCache, rowLock, pc, arg,
                snap, outcome, ret, reference, hist, opsStarted>>

(***************************************************************************)
(* Rows and results.                                                       *)
(***************************************************************************)
NoRow == [exists |-> FALSE, balance |-> 0, totalAllocated |-> 0,
          totalUsed |-> 0, isActive |-> FALSE]

NoCache == [cached |-> FALSE, row |-> NoRow]

NoOutcome == [kind |-> "none", required |-> 0, available |-> 0]

Ok == [kind |-> "ok", required |-> 0, available |-> 0]

\* new Error(...) and the storage client's errors: no payload the model reads.
Failure(kind) == [kind |-> kind, required |-> 0, available |-> 0]

InsufficientCreditsErrorSwapped(required, available) ==
    [kind |-> "InsufficientCreditsError", required |-> available,
     available |-> required]

InsufficientCreditsError(required, available) ==
    [kind |-> "InsufficientCreditsError", required |-> required,
     available |-> available]

\* createCreditAccount: a fresh active account with nothing allocated or used.
createCreditAccount ==
    [exists |-> TRUE, balance |-> 0, totalAllocated |-> 0, totalUsed |-> 0,
     isActive |-> TRUE]

CreditTransaction(type, amount, balanceBefore, balanceAfter, txReference) ==
    [type |-> type, amount |-> amount, balanceBefore |-> balanceBefore,
     balanceAfter |-> balanceAfter, reference |-> txReference]

(***************************************************************************)
(* The state after construction: no account yet, nothing cached, no call   *)
(* in flight.                                                              *)
(***************************************************************************)
LedgerInit ==
    /\ userCredit = NoRow
    /\ creditTransactions = <<>>
    /\ balanceCache = NoCache
    /\ rowLock = 0
    /\ pc = [p \in Procs |-> "idle"]
    /\ arg = [p \in Procs |-> 0]
    /\ snap = [p \in Procs |-> NoRow]
    /\ outcome = [p \in Procs |-> NoOutcome]
    /\ ret = [p \in Procs |-> "idle"]
    /\ reference = [p \in Procs |-> 0]
    /\ hist = [credits |-> 0, deducts |-> 0, accepted |-> 0]
    /\ opsStarted = 0

\* The call of p returns (or throws) to its caller with result r.
Return(p, r) ==
    /\ pc' = [pc EXCEPT ![p] = ret[p]]
    /\ outcome' = [outcome EXCEPT ![p] = r]
    /\ arg' = [arg EXCEPT ![p] = 0]
    /\ snap' = [snap EXCEPT ![p] = NoRow]
    /\ ret' = [ret EXCEPT ![p] = "idle"]

\* redis.del of the balance key.
clearBalanceCache == balanceCache' = NoCache

(***************************************************************************)
(* addCredits: one storage transaction ($transaction, the database's       *)
(* default isolation: PostgreSQL READ COMMITTED).  findUnique reads the    *)
(* last committed row and takes no lock; update takes the row lock, which  *)
(* is held until the commit; the writes are visible to others at commit.   *)
(***************************************************************************)
AddApply(row, s, amount) ==
    [(IF row.exists THEN row ELSE s) EXCEPT
        !.balance = s.balance + amount,
        !.totalAllocated = s.totalAllocated + amount]

BeginAdd(p, amount) ==
    /\ pc[p] = "idle"
    /\ opsStarted < MaxOps
    /\ opsStarted' = opsStarted + 1
    /\ pc' = [pc EXCEPT ![p] = "add_find"]
    /\ arg' = [arg EXCEPT ![p] = amount]
    /\ ret' = [ret EXCEPT ![p] = "idle"]
    /\ reference' = [reference EXCEPT ![p] = 0]
    /\ outcome' = [outcome EXCEPT ![p] = NoOutcome]
    /\ UNCHANGED <<userCredit, creditTransactions, balanceCache, rowLock, snap, hist>>

AddFind(p) ==
    /\ pc[p] = "add_find"
    /\ IF userCredit.exists
       THEN /\ snap' = [snap EXCEPT ![p] = userCredit]
            /\ pc' = [pc EXCEPT ![p] = "add_update"]
       ELSE /\ pc' = [pc EXCEPT ![p] = "add_create"]
            /\ UNCHANGED snap
    /\ UNCHANGED <<userCredit, creditTransactions, balanceCache, rowLock, arg,
                   outcome, ret, reference, hist, opsStarted>>

\* createCreditAccount(userId, tx): an insert inside the transaction.  userId is
\* unique: the insert waits for an uncommitted insert of the same key and fails
\* once that one is committed.
AddCreate(p) ==
    /\ pc[p] = "add_create"
    /\ rowLock = 0
    /\ IF userCredit.exists
       THEN /\ Return(p, Failure("Error"))
            /\ UNCHANGED rowLock
       ELSE /\ rowLock' = p
            /\ snap' = [snap EXCEPT ![p] = createCreditAccount]
            /\ pc' = [pc EXCEPT ![p] = "add_update"]
            /\ UNCHANGED <<arg, outcome, ret>>
    /\ UNCHANGED <<userCredit, creditTransactions, balanceCache, reference, hist,
                   opsStarted>>

\* update (the row lock), creditTransaction.create and clearBalanceCache, all
\* before the commit.
AddUpdate(p) ==
    /\ pc[p] = "add_update"
    /\ rowLock \in {0, p}
    /\ rowLock' = p
    /\ clearBalanceCache
    /\ pc' = [pc EXCEPT ![p] = "add_commit"]
    /\ UNCHANGED <<userCredit, creditTransactions, arg, snap, outcome, ret,
                   reference, hist, opsStarted>>

AddCommit(p) ==
    /\ pc[p] = "add_commit"
    /\ userCredit' = AddApply(userCredit, snap[p], arg[p])
    /\ creditTransactions' = Append(creditTransactions,
           CreditTransaction("TOPUP", arg[p], snap[p].balance,
                             snap[p].balance + arg[p], reference[p]))
    /\ rowLock' = 0
    /\ hist' = [hist EXCEPT !.credits = @ + arg[p], !.accepted = @ + 1]
    /\ Return(p, Ok)
    /\ UNCHANGED <<balanceCache, reference, opsStarted>>

(***************************************************************************)
(* deductCredits: the same shape, with the validations after findUnique.   *)
(***************************************************************************)
NoBalanceCheck(balanceBefore, amount) == TRUE

\* !balanceBefore.lt(amount)
SufficientBalance(balanceBefore, amount) == ~(balanceBefore < amount)

DeductApply(row, s, amount) ==
    [row EXCEPT !.balance = s.balance - amount,
                !.totalUsed = s.totalUsed + amount]

BeginDeduct(p, amount) ==
    /\ pc[p] = "idle"
    /\ opsStarted < MaxOps
    /\ opsStarted' = opsStarted + 1
    /\ pc' = [pc EXCEPT ![p] = "ded_find"]
    /\ arg' = [arg EXCEPT ![p] = amount]
    /\ ret' = [ret EXCEPT ![p] = "idle"]
    /\ reference' = [reference EXCEPT ![p] = 0]
    /\ outcome' = [outcome EXCEPT ![p] = NoOutcome]
    /\ UNCHANGED <<userCredit, creditTransactions, balanceCache, rowLock, snap, hist>>

DeductFind(p) ==
    /\ pc[p] = "ded_find"
    /\ IF ~userCredit.exists
       THEN Return(p, Failure("Error"))
       ELSE IF ~userCredit.isActive
       THEN Return(p, Failure("Error"))
       ELSE IF ~SufficientBalance(userCredit.balance, arg[p])
       THEN Return(p, InsufficientCreditsError(arg[p], userCredit.balance))
       ELSE /\ snap' = [snap EXCEPT ![p] = userCredit]
            /\ pc' = [pc EXCEPT ![p] = "ded_update"]
            /\ UNCHANGED <<arg, outcome, ret>>
    /\ UNCHANGED <<userCredit, creditTransactions, balanceCache, rowLock,
                   reference, hist, opsStarted>>

\* update (the row lock), creditTransaction.create, clearBalanceCache and
\* handleLowBalance (which only logs), all before the commit.
DeductUpdate(p) ==
    /\ pc[p] = "ded_update"
    /\ rowLock \in {0, p}
    /\ rowLock' = p
    /\ clearBalanceCache
    /\ pc' = [pc EXCEPT ![p] = "ded_commit"]
    /\ UNCHANGED <<userCredit, creditTransactions, arg, snap, outcome, ret,
                   reference, hist, opsStarted>>

DeductCommit(p) ==
    /\ pc[p] = "ded_commit"
    /\ userCredit' = DeductApply(userCredit, snap[p], arg[p])
    /\ creditTransactions' = Append(creditTransactions,
           CreditTransaction("USAGE", arg[p], snap[p].balance,
                             snap[p].balance - arg[p], reference[p]))
    /\ rowLock' = 0
    /\ hist' = [hist EXCEPT !.deducts = @ + arg[p], !.accepted = @ + 1]
    /\ Return(p, Ok)
    /\ UNCHANGED <<balanceCache, reference, opsStarted>>

(***************************************************************************)
(* getBalance: the cache first, then the row (created on first access),    *)
(* then the cache is filled for 5 minutes.  No transaction.                *)
(***************************************************************************)
Balance(row) == [kind |-> "balance", required |-> 0, available |-> row.balance]

BeginGetBalance(p) ==
    /\ pc[p] = "idle"
    /\ opsStarted < MaxOps
    /\ opsStarted' = opsStarted + 1
    /\ pc' = [pc EXCEPT ![p] = "gb_cache"]
    /\ ret' = [ret EXCEPT ![p] = "idle"]
    /\ outcome' = [outcome EXCEPT ![p] = NoOutcome]
    /\ UNCHANGED <<userCredit, creditTransactions, balanceCache, rowLock, arg,
                   snap, reference, hist>>

GetBalanceCached(p) ==
    /\ pc[p] = "gb_cache"
    /\ IF balanceCache.cached
       THEN Return(p, Balance(balanceCache.row))
       ELSE /\ pc' = [pc EXCEPT ![p] = "gb_find"]
            /\ UNCHANGED <<arg, snap, outcome, ret>>
    /\ UNCHANGED <<userCredit, creditTransactions, balanceCache, rowLock,
                   reference, hist, opsStarted>>

GetBalanceFind(p) ==
    /\ pc[p] = "gb_find"
    /\ IF userCredit.exists
       THEN /\ snap' = [snap EXCEPT ![p] = userCredit]
            /\ pc' = [pc EXCEPT ![p] = "gb_setex"]
       ELSE /\ pc' = [pc EXCEPT ![p] = "gb_create"]
            /\ UNCHANGED snap
    /\ UNCHANGED <<userCredit, creditTransactions, balanceCache, rowLock, arg,
                   outcome, ret, reference, hist, opsStarted>>

\* createCreditAccount(userId): an insert of its own, committed at once.
GetBalanceCreate(p) ==
    /\ pc[p] = "gb_create"
    /\ rowLock = 0
    /\ IF userCredit.exists
       THEN /\ Return(p, Failure("Error"))
            /\ UNCHANGED userCredit
       ELSE /\ userCredit' = createCreditAccount
            /\ snap' = [snap EXCEPT ![p] = createCreditAccount]
            /\ pc' = [pc EXCEPT ![p] = "gb_setex"]
            /\ UNCHANGED <<arg, outcome, ret>>
    /\ UNCHANGED <<creditTransactions, balanceCache, rowLock, reference, hist,
                   opsStarted>>

GetBalanceSetex(p) ==
    /\ pc[p] = "gb_setex"
    /\ balanceCache' = [cached |-> TRUE, row |-> snap[p]]
    /\ Return(p, Balance(snap[p]))
    /\ UNCHANGED <<userCredit, creditTransactions, rowLock, reference, hist,
                   opsStarted>>

\* The 300 s of the cached balance run out.
CacheExpire ==
    /\ balanceCache.cached
    /\ balanceCache' = NoCache
    /\ UNCHANGED <<userCredit, creditTransactions, rowLock, pc, arg, snap,
                   outcome, ret, reference, hist, opsStarted>>

(***************************************************************************)
(* suspendAccount and reactivateAccount: three statements of their own     *)
(* (update, findUnique, creditTransaction.create), then clearBalanceCache. *)
(* arg is 1 for suspend and 0 for reactivate.                              *)
(***************************************************************************)
BeginSetActive(p, active) ==
    /\ pc[p] = "idle"
    /\ opsStarted < MaxOps
    /\ opsStarted' = opsStarted + 1
    /\ pc' = [pc EXCEPT ![p] = "act_update"]
    /\ arg' = [arg EXCEPT ![p] = IF active THEN 0 ELSE 1]
    /\ ret' = [ret EXCEPT ![p] = "idle"]
    /\ outcome' = [outcome EXCEPT ![p] = NoOutcome]
    /\ UNCHANGED <<userCredit, creditTransactions, balanceCache, rowLock, snap,
                   reference, hist>>

\* update where userId: fails when there is no row, waits for the row lock.
SetActiveUpdate(p) ==
    /\ pc[p] = "act_update"
    /\ rowLock = 0
    /\ IF ~userCredit.exists
       THEN /\ Return(p, Failure("Error"))
            /\ UNCHANGED userCredit
       ELSE /\ userCredit' = [userCredit EXCEPT !.isActive = (arg[p] = 0)]
            /\ pc' = [pc EXCEPT ![p] = "act_find"]
            /\ UNCHANGED <<arg, snap, outcome, ret>>
    /\ UNCHANGED <<creditTransactions, balanceCache, rowLock, reference, hist,
                   opsStarted>>

SetActiveFind(p) ==
    /\ pc[p] = "act_find"
    /\ snap' = [snap EXCEPT ![p] = userCredit]
    /\ pc' = [pc EXCEPT ![p] = "act_record"]
    /\ UNCHANGED <<userCredit, creditTransactions, balanceCache, rowLock, arg,
                   outcome, ret, reference, hist, opsStarted>>

SetActiveRecord(p) ==
    /\ pc[p] = "act_record"
    /\ creditTransactions' = Append(creditTransactions,
           CreditTransaction(IF arg[p] = 1 THEN "PENALTY" ELSE "ADJUSTMENT", 0,
                             snap[p].balance, snap[p].balance, 0))
    /\ clearBalanceCache
    /\ Return(p, Ok)
    /\ UNCHANGED <<userCredit, rowLock, reference, hist, opsStarted>>

(***************************************************************************)
(* UsageTrackingMiddleware.  A url is its path segments; the patterns of   *)
(* skipEndpoints hold no '*', so shouldSkipEndpoint is url.startsWith.     *)
(***************************************************************************)
pipelineVars == <<options, request, served>>

\* billingMiddlewareConfig.skipEndpoints
skipEndpoints ==
    { <<"health">>, <<"docs">>, <<"api">>, <<"favicon.ico">>, <<"metrics">>,
      <<"api", "v1", "credits">>, <<"api", "v1", "usage">> }

\* The requests of the model: a path under /api and a path under no pattern.
Urls == { <<"api", "v1", "proofs">>, <<"v1", "proofs">> }

\* What estimateCost returns (0 also when it fails) and calculateCost returns.
Costs == {0} \cup Amounts
\* calculateCost threw: creditsCost is undefined.
NoCost == -1

startsWith(url, pattern) ==
    /\ Len(pattern) <= Len(url)
    /\ \A i \in 1..Len(pattern) : url[i] = pattern[i]

shouldSkipEndpoint(url) == \E pattern \in skipEndpoints : startsWith(url, pattern)

NoRequest == [id |-> 0, url |-> <<>>, identified |-> FALSE, context |-> "none",
              estimate |-> 0, precheckFailed |-> FALSE, handlerRan |-> FALSE,
              statusCode |-> 0, cost |-> NoCost]

PipelineInit ==
    /\ options \in [enableRealTimeDeduction : BOOLEAN]
    /\ request = [p \in Procs |-> NoRequest]
    /\ served = {}

\* The catch of preHandler: every error of the hook is logged and swallowed.
preHandlerCatches(error) == TRUE

\* setErrorHandler: 402 for InsufficientCreditsError, anything else is rethrown.
errorHandler(error) ==
    IF error.kind = "InsufficientCreditsError" THEN 402 ELSE 500

\* The request is one the claims call billed: an identified tenant, real-time
\* mode, an endpoint that is not skipped.
Billable(r) ==
    /\ options.enableRealTimeDeduction
    /\ r.identified
    /\ ~shouldSkipEndpoint(r.url)

BeginRequest(p, url, identified) ==
    /\ pc[p] = "idle"
    /\ opsStarted < MaxOps
    /\ opsStarted' = opsStarted + 1
    /\ pc' = [pc EXCEPT ![p] = "pre"]
    /\ request' = [request EXCEPT ![p] =
           [NoRequest EXCEPT !.id = opsStarted + 1, !.url = url,
                             !.identified = identified]]
    /\ outcome' = [outcome EXCEPT ![p] = NoOutcome]
    /\ UNCHANGED <<userCredit, creditTransactions, balanceCache, rowLock, arg,
                   snap, ret, reference, hist, options, served>>

\* preHandler up to the getBalance of preCheckCredits.  estimate is what
\* estimateRequestCost returns.
PreHandler(p, estimate) ==
    /\ pc[p] = "pre"
    /\ IF shouldSkipEndpoint(request[p].url)
       THEN /\ pc' = [pc EXCEPT ![p] = "handler"]
            /\ UNCHANGED <<request, ret>>
       ELSE IF options.enableRealTimeDeduction /\ request[p].identified
               /\ estimate > 0
       THEN /\ request' = [request EXCEPT ![p].context = "billing",
                                          ![p].estimate = estimate]
            /\ pc' = [pc EXCEPT ![p] = "gb_cache"]
            /\ ret' = [ret EXCEPT ![p] = "pre_check"]
       ELSE /\ request' = [request EXCEPT ![p].context = "billing"]
            /\ pc' = [pc EXCEPT ![p] = "handler"]
            /\ UNCHANGED ret
    /\ UNCHANGED <<userCredit, creditTransactions, balanceCache, rowLock, arg,
                   snap, outcome, reference, hist, opsStarted, options, served>>

\* The hook ends with error thrown: caught (usageContext = skipBilling and the
\* request goes on), or sent to the error handler (the route never runs).
HookThrows(p, error, failed) ==
    IF preHandlerCatches(error)
    THEN /\ request' = [request EXCEPT ![p].context = "skip",
                                       ![p].estimate = 0,
                                       ![p].precheckFailed = failed]
         /\ pc' = [pc EXCEPT ![p] = "handler"]
    ELSE /\ request' = [request EXCEPT ![p].estimate = 0,
                                       ![p].precheckFailed = failed,
                                       ![p].statusCode = errorHandler(error)]
         /\ pc' = [pc EXCEPT ![p] = "post"]

\* preCheckCredits after getBalance has returned or thrown.
PreCheck(p) ==
    /\ pc[p] = "pre_check"
    /\ IF outcome[p].kind # "balance"
       THEN HookThrows(p, outcome[p], FALSE)
       ELSE IF outcome[p].available < request[p].estimate
       THEN HookThrows(p, InsufficientCreditsError(request[p].estimate,
                                                   outcome[p].available), TRUE)
       ELSE /\ pc' = [pc EXCEPT ![p] = "handler"]
            /\ request' = [request EXCEPT ![p].estimate = 0]
    /\ outcome' = [outcome EXCEPT ![p] = NoOutcome]
    /\ UNCHANGED <<userCredit, creditTransactions, balanceCache, rowLock, arg,
                   snap, ret, reference, hist, opsStarted, options, served>>

\* The route's business logic runs and the response is sent.
Handler(p) ==
    /\ pc[p] = "handler"
    /\ request' = [request EXCEPT ![p].handlerRan = TRUE, ![p].statusCode = 200]
    /\ pc' = [pc EXCEPT ![p] = "post"]
    /\ UNCHANGED <<userCredit, creditTransactions, balanceCache, rowLock, arg,
                   snap, outcome, ret, reference, hist, opsStarted, options, served>>

\* The post-handler is over: the request leaves the model; served remembers the
\* id of a billable request whose business logic ran and whose pre-check failed
\* or whose actual cost was computed.
Finish(p) ==
    /\ pc' = [pc EXCEPT ![p] = "idle"]
    /\ request' = [request EXCEPT ![p] = NoRequest]
    /\ outcome' = [outcome EXCEPT ![p] = NoOutcome]
    /\ served' = IF /\ Billable(request[p])
                    /\ request[p].handlerRan
                    /\ request[p].precheckFailed \/ request[p].cost # NoCost
                 THEN served \cup {request[p].id}
                 ELSE served

\* postHandler (onResponse) up to the deductCredits call.  cost is what
\* calculateCost returns, NoCost when it throws.
PostHandler(p, cost) ==
    /\ pc[p] = "post"
    /\ IF request[p].context # "billing"
       THEN /\ Finish(p)
            /\ UNCHANGED <<arg, ret, reference>>
       ELSE IF options.enableRealTimeDeduction /\ request[p].identified
               /\ cost # NoCost
       THEN /\ pc' = [pc EXCEPT ![p] = "ded_find"]
            /\ arg' = [arg EXCEPT ![p] = cost]
            /\ ret' = [ret EXCEPT ![p] = "post_done"]
            /\ reference' = [reference EXCEPT ![p] = request[p].id]
            /\ request' = [request EXCEPT ![p].cost = cost]
            /\ UNCHANGED <<served, outcome>>
       ELSE /\ Finish(p)
            /\ UNCHANGED <<arg, ret, reference>>
    /\ UNCHANGED <<userCredit, creditTransactions, balanceCache, rowLock, snap,
                   hist, opsStarted, options>>

\* deductCredits of the middleware has returned or thrown: a failure is logged.
PostDone(p) ==
    /\ pc[p] = "post_done"
    /\ Finish(p)
    /\ reference' = [reference EXCEPT ![p] = 0]
    /\ UNCHANGED <<userCredit, creditTransactions, balanceCache, rowLock, arg,
                   snap, ret, hist, opsStarted, options>>

(***************************************************************************)
(* CircuitBreaker.  Time is Date.now() in milliseconds; the clock of the   *)
(* model advances in steps of half a recoveryTimeout.                      *)
(***************************************************************************)
VARIABLES
    state,            \* CLOSED, OPEN or HALF_OPEN
    failureCount,
    lastFailureTime,  \* NoTime: undefined
    nextAttemptTime,
    now,              \* Date.now()
    call              \* each caller's execute call on this breaker

breakerVars == <<state, failureCount, lastFailureTime, nextAttemptTime, now, call>>

VARIABLES
    config,        \* withRetry: DEFAULT_RETRY_OPTIONS merged with the options
    attempt,       \* withRetry: the loop counter
    lastError,     \* withRetry: the error of the last failed attempt
    retryPc,       \* idle, loop, await (operation() pending), sleep or done
    delay,         \* the delay handed to setTimeout while retryPc = "sleep"
    invocations,   \* how many times the operation has been invoked
    sleeps,        \* the delays slept so far, in order
    retryResult    \* how withRetry settled

retryVars ==
    <<config, attempt, lastError, retryPc, delay, invocations, sleeps,
      retryResult>>

VARIABLES
    anchorPc,        \* anchorToBlockchains: idle, hash, settling, update, done
    chainMode,       \* how each chain's RPC behaves during this anchoring
    anchorPromises,  \* the promise of each chain's anchor call
    anchorResults,   \* what Promise.allSettled resolved with
    results,         \* results.length: the proofs of the submission
    anchorI,         \* the index of the update loop
    proofRows,       \* the tx hash columns of the submission's proof rows
    anchorLog,       \* the last verification log entry of the anchoring
    anchorReturn     \* how anchorToBlockchains settled

anchorVars ==
    <<anchorPc, chainMode, anchorPromises, anchorResults, results, anchorI,
      proofRows, anchorLog, anchorReturn>>

VARIABLES
    usageQueue,    \* the Redis list usage:queue, head first
    usageData,     \* the log keys whose usage:<...> value is in Redis
    apiUsageLog,   \* the log keys of the rows of apiUsageLog, in order
    workerPc,      \* processUsageQueue: brpop, get, process or del
    workerKey,     \* the key processUsageQueue took from the queue
    nextLogKey     \* the next fresh log key

queueVars ==
    <<usageQueue, usageData, apiUsageLog, workerPc, workerKey, nextLogKey>>

VARIABLES
    pricingTier,    \* the names of the active rows of the pricingTier table
    pricingCache,   \* the tier names in UsageProcessorService.pricingCache
    calculation,    \* the last calculateCost call and what it returned
    priced          \* a request on its way through estimate, handler and cost

pricingVars == <<pricingTier, pricingCache, calculation, priced>>

VARIABLES
    verifyCache,    \* Redis key blockchain_ethereum:<hash>
    chainRpc,       \* how the chain's RPC answers a getAnchor call now
    verify          \* the read-path call in progress and how the last one ended

verifyVars == <<verifyCache, chainRpc, verify>>

VARIABLES
    submissionStatus,  \* submission.status of each submission
    verification,      \* where the startVerification of each submission is
    retryReply,        \* the reply of the last POST /:id/retry of each submission
    retries            \* retries requested so far for each submission

submissionVars == <<submissionStatus, verification, retryReply, retries>>

vars ==
    <<ledgerVars, pipelineVars, breakerVars, retryVars, anchorVars, queueVars,
      pricingVars, verifyVars, submissionVars>>

\* Clock steps in one behaviour.
MaxTicks == 5

\* The options of the breakers of BlockchainService.
failureThreshold == 3
recoveryTimeout == 60000

TickMs == recoveryTimeout \div 2

NoTime == -1

Callers == {1, 2}

\* pc: idle or inflight (the operation is invoked and has not settled);
\* admitted: the state of the breaker when the operation was invoked;
\* probe: this call moved the breaker from OPEN to HALF_OPEN;
\* last: how the caller's last execute ended.
IdleCall(last) ==
    [pc |-> "idle", admitted |-> "none", probe |-> FALSE, last |-> last]

BreakerInit ==
    /\ state = "CLOSED"
    /\ failureCount = 0
    /\ lastFailureTime = NoTime
    /\ nextAttemptTime = 0
    /\ now = 0
    /\ call = [c \in Callers |-> IdleCall("none")]

RejectsAtDeadline(t, next) == t <= next

\* Date.now() < this.nextAttemptTime
StillOpen(t, next) == t < next

ThresholdExceeded(count) == count > failureThreshold

FirstFailureOpens(count) == count >= 1

\* this.failureCount >= this.options.failureThreshold
ThresholdReached(count) == count >= failureThreshold

Tick ==
    /\ now < MaxTicks * TickMs
    /\ now' = now + TickMs
    /\ UNCHANGED <<state, failureCount, lastFailureTime, nextAttemptTime, call>>

\* execute up to the await of operation().
Execute(c) ==
    /\ call[c].pc = "idle"
    /\ IF state = "OPEN" /\ StillOpen(now, nextAttemptTime)
       THEN /\ call' = [call EXCEPT ![c] = IdleCall("CircuitBreakerOpenError")]
            /\ UNCHANGED state
       ELSE /\ state' = IF state = "OPEN" THEN "HALF_OPEN" ELSE state
            /\ call' = [call EXCEPT ![c] =
                   [pc |-> "inflight", admitted |-> state',
                    probe |-> state = "OPEN", last |-> "none"]]
    /\ UNCHANGED <<failureCount, lastFailureTime, nextAttemptTime, now>>

\* operation() resolved: onSuccess.
Succeed(c) ==
    /\ call[c].pc = "inflight"
    /\ failureCount' = 0
    /\ state' = IF state = "HALF_OPEN" THEN "CLOSED" ELSE state
    /\ call' = [call EXCEPT ![c] = IdleCall("success")]
    /\ UNCHANGED <<lastFailureTime, nextAttemptTime, now>>

\* operation() rejected: onFailure, and the error is rethrown.  expected is
\* options.expectedErrors(error).
Fail(c, expected) ==
    /\ call[c].pc = "inflight"
    /\ IF ~expected
       THEN /\ call' = [call EXCEPT ![c] = IdleCall("error")]
            /\ UNCHANGED <<state, failureCount, lastFailureTime, nextAttemptTime>>
       ELSE /\ failureCount' = failureCount + 1
            /\ lastFailureTime' = now
            /\ call' = [call EXCEPT ![c] = IdleCall("expectedError")]
            /\ IF state = "HALF_OPEN"
               THEN /\ state' = "OPEN"
                    /\ nextAttemptTime' = now + recoveryTimeout
               ELSE IF ThresholdReached(failureCount')
               THEN /\ state' = "OPEN"
                    /\ nextAttemptTime' = now + recoveryTimeout
               ELSE UNCHANGED <<state, nextAttemptTime>>
    /\ UNCHANGED now

\* reset(): the operator's manual reset.
Reset ==
    /\ state' = "CLOSED"
    /\ failureCount' = 0
    /\ lastFailureTime' = NoTime
    /\ nextAttemptTime' = 0
    /\ UNCHANGED <<now, call>>

(***************************************************************************)
(* withRetry.  Delays are in milliseconds.  Math.random() is drawn from    *)
(* {0, 1/2}, so that the jitter factor 0.5 + random * 0.5 is 2/4 or 3/4.   *)
(***************************************************************************)
\* The largest maxAttempts a caller passes.
MaxRetryAttempts == 3

\* DEFAULT_RETRY_OPTIONS.
baseDelay == 1000
maxDelay == 30000
backoffMultiplier == 2

\* The values of options.maxDelay: the default, and one low enough to cap the
\* second delay.
MaxDelays == {maxDelay, baseDelay + baseDelay \div 2}

\* Math.random(), in halves.
Randoms == {0, 1}

RetryOptions ==
    [maxAttempts : 1..MaxRetryAttempts, baseDelay : {baseDelay},
     maxDelay : MaxDelays, backoffMultiplier : {backoffMultiplier},
     jitter : BOOLEAN]

NoError == [name |-> "none", message |-> <<>>]

\* What the operation can throw.
OperationErrors ==
    { [name |-> "RetryableError", message |-> <<"RPC timeout">>],
      [name |-> "Error", message |-> <<"network unreachable">>],
      [name |-> "NonRetryableError", message |-> <<"invalid proof">>] }

Pending == [kind |-> "pending", error |-> NoError]
Returned == [kind |-> "returned", error |-> NoError]
Thrown(error) == [kind |-> "thrown", error |-> error]

RECURSIVE pow(_, _)
\* Math.pow for a natural exponent.
pow(base, exponent) ==
    IF exponent = 0 THEN 1 ELSE base * pow(base, exponent - 1)

min(a, b) == IF a < b THEN a ELSE b

BackoffExponentOffByOne(n) == n

\* attempt - 1
BackoffExponent(n) == n - 1

\* Math.min(baseDelay * Math.pow(backoffMultiplier, attempt - 1), maxDelay)
backoffDelay(cfg, n) ==
    min(cfg.baseDelay * pow(cfg.backoffMultiplier, BackoffExponent(n)),
        cfg.maxDelay)

\* delay * (0.5 + Math.random() * 0.5), with Math.random() = random / 2.
jittered(d, random) == (d * (2 + random)) \div 4

NeverNonRetryable(error) == FALSE

\* error instanceof NonRetryableError
isNonRetryable(error) == error.name = "NonRetryableError"

\* new Error(`${operationName} failed after ${maxAttempts} attempts: ${lastError.message}`)
exhaustedError(cfg, last) ==
    [name |-> "Error",
     message |-> <<"failed after", ToString(cfg.maxAttempts), "attempts">>
                     \o last.message]

RetryInit ==
    /\ config = [maxAttempts |-> 3, baseDelay |-> baseDelay,
                 maxDelay |-> maxDelay,
                 backoffMultiplier |-> backoffMultiplier, jitter |-> TRUE]
    /\ attempt = 0
    /\ lastError = NoError
    /\ retryPc = "idle"
    /\ delay = 0
    /\ invocations = 0
    /\ sleeps = <<>>
    /\ retryResult = Pending

\* withRetry(operation, options): config is built and the loop starts.
WithRetry(opts) ==
    /\ retryPc \in {"idle", "done"}
    /\ config' = opts
    /\ attempt' = 1
    /\ lastError' = NoError
    /\ retryPc' = "loop"
    /\ delay' = 0
    /\ invocations' = 0
    /\ sleeps' = <<>>
    /\ retryResult' = Pending

\* The loop test and the call of operation().
RetryInvoke ==
    /\ retryPc = "loop"
    /\ IF attempt <= config.maxAttempts
       THEN /\ invocations' = invocations + 1
            /\ retryPc' = "await"
            /\ UNCHANGED retryResult
       ELSE /\ retryResult' = Thrown(exhaustedError(config, lastError))
            /\ retryPc' = "done"
            /\ UNCHANGED invocations
    /\ UNCHANGED <<config, attempt, lastError, delay, sleeps>>

\* operation() resolved.
RetryResolve ==
    /\ retryPc = "await"
    /\ retryResult' = Returned
    /\ retryPc' = "done"
    /\ UNCHANGED <<config, attempt, lastError, delay, invocations, sleeps>>

\* operation() rejected with error: the catch block.
RetryReject(error, random) ==
    /\ retryPc = "await"
    /\ lastError' = error
    /\ IF isNonRetryable(error)
       THEN /\ retryResult' = Thrown(error)
            /\ retryPc' = "done"
            /\ UNCHANGED delay
       ELSE IF attempt = config.maxAttempts
       THEN /\ retryResult' = Thrown(exhaustedError(config, error))
            /\ retryPc' = "done"
            /\ UNCHANGED delay
       ELSE /\ delay' = IF config.jitter
                        THEN jittered(backoffDelay(config, attempt), random)
                        ELSE backoffDelay(config, attempt)
            /\ retryPc' = "sleep"
            /\ UNCHANGED retryResult
    /\ UNCHANGED <<config, attempt, invocations, sleeps>>

\* The timer of setTimeout(resolve, delay) fired: the next iteration.
RetryWake ==
    /\ retryPc = "sleep"
    /\ sleeps' = Append(sleeps, delay)
    /\ attempt' = attempt + 1
    /\ retryPc' = "loop"
    /\ UNCHANGED <<config, lastError, delay, invocations, retryResult>>

(***************************************************************************)
(* VerificationService.anchorToBlockchains and the anchor calls of         *)
(* BlockchainService.                                                      *)
(***************************************************************************)
\* The most proofs a submission has.
MaxResults == 2

\* anchorPromises, in the order of the array.
Chains == {"ethereum", "arbitrum", "starknet"}

\* ok: the transaction is sent and mined; throws: the RPC call rejects;
\* hangs: the RPC call never responds; unconfigured: provider, key or
\* contract address is missing.
ChainModes == {"ok", "throws", "hangs", "unconfigured"}

NoPromise == [status |-> "none", value |-> ""]
PendingPromise == [status |-> "pending", value |-> ""]

\* tx.hash / result.transaction_hash
Fulfilled(c) == [status |-> "fulfilled", value |-> "0x" \o c]

\* new Error(`... anchoring failed: ...`) / new Error('... configuration not available')
Rejected(message) == [status |-> "rejected", value |-> message]

NoResults == [c \in Chains |-> NoPromise]

NoTxHashes == [c \in Chains |-> ""]

NeverFulfilled(r) == FALSE

\* anchorResults[k]?.status === 'fulfilled'
isFulfilled(r) == r.status = "fulfilled"

\* The updateData of one iteration of the loop.
updateData(settled) == {c \in Chains : isFulfilled(settled[c])}

AnchorInit ==
    /\ anchorPc = "idle"
    /\ chainMode = [c \in Chains |-> "ok"]
    /\ anchorPromises = NoResults
    /\ anchorResults = NoResults
    /\ results = 0
    /\ anchorI = 0
    /\ proofRows = NoTxHashes
    /\ anchorLog = "none"
    /\ anchorReturn = "none"

\* anchorToBlockchains(submission, results): the first log entry and the
\* verification hash.
AnchorStart(modes, n) ==
    /\ anchorPc \in {"idle", "done"}
    /\ anchorPc' = "hash"
    /\ chainMode' = modes
    /\ anchorPromises' = NoResults
    /\ anchorResults' = NoResults
    /\ results' = n
    /\ anchorI' = 0
    /\ proofRows' = NoTxHashes
    /\ anchorLog' = "Anchoring verification results to blockchains"
    /\ anchorReturn' = "none"

\* The array of the three anchor calls: each async function runs up to its
\* first await, or rejects on its configuration guard.
AnchorIssue ==
    /\ anchorPc = "hash"
    /\ anchorPromises' =
           [c \in Chains |->
               IF chainMode[c] = "unconfigured"
               THEN Rejected("configuration not available")
               ELSE PendingPromise]
    /\ anchorPc' = "settling"
    /\ UNCHANGED <<chainMode, anchorResults, results, anchorI, proofRows,
                   anchorLog, anchorReturn>>

\* The transaction of chain c was sent and mined.
ChainFulfil(c) ==
    /\ anchorPromises[c].status = "pending"
    /\ chainMode[c] = "ok"
    /\ anchorPromises' = [anchorPromises EXCEPT ![c] = Fulfilled(c)]
    /\ UNCHANGED <<anchorPc, chainMode, anchorResults, results, anchorI,
                   proofRows, anchorLog, anchorReturn>>

\* The RPC call of chain c rejected: the catch block of the anchor function.
ChainReject(c) ==
    /\ anchorPromises[c].status = "pending"
    /\ chainMode[c] = "throws"
    /\ anchorPromises' =
           [anchorPromises EXCEPT ![c] = Rejected("anchoring failed")]
    /\ UNCHANGED <<anchorPc, chainMode, anchorResults, results, anchorI,
                   proofRows, anchorLog, anchorReturn>>

\* Promise.allSettled(anchorPromises) resolved.
AllSettled ==
    /\ anchorPc = "settling"
    /\ \A c \in Chains : anchorPromises[c].status \in {"fulfilled", "rejected"}
    /\ anchorResults' = anchorPromises
    /\ anchorPc' = "update"
    /\ UNCHANGED <<chainMode, anchorPromises, results, anchorI, proofRows,
                   anchorLog, anchorReturn>>

\* One iteration of the update loop; dbOk: prisma.proof.updateMany resolved.
\* A rejection is caught by the catch of anchorToBlockchains.
AnchorUpdate(dbOk) ==
    /\ anchorPc = "update"
    /\ anchorI < results
    /\ IF updateData(anchorResults) = {}
       THEN /\ anchorI' = anchorI + 1
            /\ UNCHANGED <<anchorPc, proofRows, anchorLog, anchorReturn>>
       ELSE IF dbOk
       THEN /\ proofRows' =
                   [c \in Chains |->
                       IF c \in updateData(anchorResults)
                       THEN anchorResults[c].value
                       ELSE proofRows[c]]
            /\ anchorI' = anchorI + 1
            /\ UNCHANGED <<anchorPc, anchorLog, anchorReturn>>
       ELSE /\ anchorLog' = "Blockchain anchoring failed"
            /\ anchorPc' = "done"
            /\ anchorReturn' = "returned"
            /\ UNCHANGED <<anchorI, proofRows>>
    /\ UNCHANGED <<chainMode, anchorPromises, anchorResults, results>>

\* The loop is over: the last log entry, and the call returns.
AnchorComplete ==
    /\ anchorPc = "update"
    /\ anchorI >= results
    /\ anchorLog' = "Blockchain anchoring completed"
    /\ anchorPc' = "done"
    /\ anchorReturn' = "returned"
    /\ UNCHANGED <<chainMode, anchorPromises, anchorResults, results, anchorI,
                   proofRows>>

(***************************************************************************)
(* The usage log: logUsageAsync of the middleware queues, and              *)
(* processUsageQueue of UsageProcessorService persists.                    *)
(***************************************************************************)
\* The usage records queued in one behaviour.
MaxRecords == 3

NoKey == 0

QueueInit ==
    /\ usageQueue = <<>>
    /\ usageData = {}
    /\ apiUsageLog = <<>>
    /\ workerPc = "brpop"
    /\ workerKey = NoKey
    /\ nextLogKey = 1

\* logUsageAsync: setex of the metrics under a fresh key, lpush of the key.
logUsageAsync ==
    /\ nextLogKey <= MaxRecords
    /\ usageData' = usageData \cup {nextLogKey}
    /\ usageQueue' = <<nextLogKey>> \o usageQueue
    /\ nextLogKey' = nextLogKey + 1
    /\ UNCHANGED <<apiUsageLog, workerPc, workerKey>>

\* The 1 hour TTL of a usage:<...> value ran out.
UsageDataExpire(key) ==
    /\ key \in usageData
    /\ usageData' = usageData \ {key}
    /\ UNCHANGED <<usageQueue, apiUsageLog, workerPc, workerKey, nextLogKey>>

\* redis.brpop('usage:queue', 10) returned a key: the tail of the list.
Brpop ==
    /\ workerPc = "brpop"
    /\ usageQueue # <<>>
    /\ workerKey' = usageQueue[Len(usageQueue)]
    /\ usageQueue' = SubSeq(usageQueue, 1, Len(usageQueue) - 1)
    /\ workerPc' = "get"
    /\ UNCHANGED <<usageData, apiUsageLog, nextLogKey>>

\* redis.get(key); a missing value is logged and the loop continues.
WorkerGet ==
    /\ workerPc = "get"
    /\ IF workerKey \in usageData
       THEN workerPc' = "process" /\ UNCHANGED workerKey
       ELSE workerPc' = "brpop" /\ workerKey' = NoKey
    /\ UNCHANGED <<usageQueue, usageData, apiUsageLog, nextLogKey>>

\* processUsageLog(metrics); dbOk: prisma.apiUsageLog.create resolved.  A
\* rejection is rethrown, caught and logged by the loop, which continues.
processUsageLog(dbOk) ==
    /\ workerPc = "process"
    /\ IF dbOk
       THEN /\ apiUsageLog' = Append(apiUsageLog, workerKey)
            /\ workerPc' = "del"
            /\ UNCHANGED workerKey
       ELSE /\ workerPc' = "brpop"
            /\ workerKey' = NoKey
            /\ UNCHANGED apiUsageLog
    /\ UNCHANGED <<usageQueue, usageData, nextLogKey>>

\* redis.del(key).
WorkerDel ==
    /\ workerPc = "del"
    /\ usageData' = usageData \ {workerKey}
    /\ workerPc' = "brpop"
    /\ workerKey' = NoKey
    /\ UNCHANGED <<usageQueue, apiUsageLog, nextLogKey>>

(***************************************************************************)
(* Pricing: UsageProcessorService.getPricingRule, calculateCost and        *)
(* estimateCost.  A Decimal is an exact fraction in lowest terms (the      *)
(* sizes, durations and prices here stay far below the 20 significant      *)
(* digits of Decimal); a JS number made by dividing a byte count by 1024   *)
(* or a millisecond count by 1000 prints as that quotient, which is what   *)
(* new Decimal(number) reads.                                              *)
(***************************************************************************)
\* Request and response sizes, in bytes, are multiples of 256 up to this
\* many, and 2048.
MaxSizeUnits == 1

Sizes == {256 * k : k \in 0..MaxSizeUnits} \cup {2048}

\* Durations, in milliseconds.
Durations == {0, 500, 2000}
Endpoints == {"/api/v1/proofs", "/api/v1/vapps"}
TierNames == {"free", "standard"}

RECURSIVE gcd(_, _)
gcd(a, b) == IF b = 0 THEN a ELSE gcd(b, a % b)

\* The Decimal n/d.
Dec(n, d) ==
    IF n = 0 THEN [num |-> 0, den |-> 1]
    ELSE [num |-> n \div gcd(n, d), den |-> d \div gcd(n, d)]

\* Decimal.mul
DecMul(a, b) ==
    LET g1 == IF a.num = 0 THEN b.den ELSE gcd(a.num, b.den)
        g2 == IF b.num = 0 THEN a.den ELSE gcd(b.num, a.den)
    IN  Dec((a.num \div g1) * (b.num \div g2), (a.den \div g2) * (b.den \div g1))

\* Decimal.add
DecAdd(a, b) ==
    LET g == gcd(a.den, b.den)
    IN  Dec(a.num * (b.den \div g) + b.num * (a.den \div g),
            (a.den \div g) * b.den)

TruncatingQuotient(n, d) == Dec(n \div d, 1)

\* new Decimal(n / d) for the JS numbers n and d.
Quotient(n, d) == Dec(n, d)

\* DEFAULT_PRICING_TIERS: the rows of the pricingTier table.
PricingRules ==
    [free |->
        [basePrice |-> Dec(1, 1000), sizeMultiplier |-> Dec(1, 10000),
         durationMultiplier |-> Dec(1, 100000),
         endpointPricing |->
             [e \in Endpoints |->
                 IF e = "/api/v1/proofs" THEN Dec(1, 100) ELSE Dec(0, 1)]],
     standard |->
        [basePrice |-> Dec(2, 1000), sizeMultiplier |-> Dec(2, 10000),
         durationMultiplier |-> Dec(2, 100000),
         endpointPricing |->
             [e \in Endpoints |->
                 IF e = "/api/v1/proofs" THEN Dec(2, 100) ELSE Dec(0, 1)]]]

CostParams ==
    [endpoint : Endpoints, requestSize : Sizes, responseSize : Sizes,
     duration : Durations]

\* performPricingCalculation(params, pricing)
performPricingCalculation(params, pricing) ==
    LET totalSize == params.requestSize + params.responseSize
        sizePrice == DecMul(Quotient(totalSize, 1024), pricing.sizeMultiplier)
        durationPrice ==
            DecMul(Quotient(params.duration, 1000), pricing.durationMultiplier)
        endpointPrice == pricing.endpointPricing[params.endpoint]
    IN  [basePrice |-> pricing.basePrice,
         sizePrice |-> sizePrice,
         durationPrice |-> durationPrice,
         endpointPrice |-> endpointPrice,
         totalPrice |->
             DecAdd(DecAdd(DecAdd(pricing.basePrice, sizePrice), durationPrice),
                    endpointPrice)]

NoCalculation ==
    [basePrice |-> Dec(0, 1), sizePrice |-> Dec(0, 1),
     durationPrice |-> Dec(0, 1), endpointPrice |-> Dec(0, 1),
     totalPrice |-> Dec(0, 1)]

\* getPricingRule finds the tier: in the cache, or as an active row.
tierFound(tierName) == tierName \in pricingCache \/ tierName \in pricingTier

\* The pricingCache after getPricingRule(tierName).
cacheAfterLookup(tierName) ==
    IF tierFound(tierName) THEN pricingCache \cup {tierName} ELSE pricingCache

\* billingConfig.DEFAULT_PRICING_TIER, which determinePricingTier returns.
defaultPricingTier == "standard"

\* phase: none, handler (the pre-handler let the request through), post (the
\* response is sent) or completed; lookupFailed: a getPricingRule call for
\* this request threw PricingTierNotFoundError; charged: the post-handler
\* called deductCredits; failure: the failure the request ended with.
NoPriced ==
    [phase |-> "none", endpoint |-> "", requestSize |-> 0,
     estimate |-> Dec(0, 1), lookupFailed |-> FALSE, creditsCost |-> Dec(0, 1),
     hasCost |-> FALSE, charged |-> FALSE, failure |-> "none"]

PricingInit ==
    /\ pricingTier = TierNames
    /\ pricingCache = {}
    /\ calculation =
           [tier |-> "", outcome |-> "none", result |-> NoCalculation,
            params |-> [endpoint |-> "/api/v1/vapps", requestSize |-> 0,
                        responseSize |-> 0, duration |-> 0]]
    /\ priced = NoPriced

\* The operator activates or deactivates a row of the pricingTier table.
SetTierActive(tierName, active) ==
    /\ pricingTier' = IF active THEN pricingTier \cup {tierName}
                                ELSE pricingTier \ {tierName}
    /\ pricingTier' # pricingTier
    /\ UNCHANGED <<pricingCache, calculation, priced>>

\* The 5 minute timer of a cache entry fired.
PricingCacheExpire(tierName) ==
    /\ tierName \in pricingCache
    /\ pricingCache' = pricingCache \ {tierName}
    /\ UNCHANGED <<pricingTier, calculation, priced>>

\* calculateCost(params): the error of getPricingRule is rethrown.
calculateCost(params, tierName) ==
    /\ calculation' =
           IF tierFound(tierName)
           THEN [tier |-> tierName, outcome |-> "returned", params |-> params,
                 result |->
                     performPricingCalculation(params, PricingRules[tierName])]
           ELSE [tier |-> tierName, outcome |-> "PricingTierNotFoundError",
                 params |-> params, result |-> NoCalculation]
    /\ pricingCache' = cacheAfterLookup(tierName)
    /\ UNCHANGED <<pricingTier, priced>>

\* Math.max(params.requestSize, 1024)
estimatedResponseSize(requestSize) ==
    IF requestSize > 1024 THEN requestSize ELSE 1024

\* estimateCost(params): an error of getPricingRule is logged and 0 is
\* returned.
estimateCost(endpoint, requestSize, tierName) ==
    IF tierFound(tierName)
    THEN performPricingCalculation(
             [endpoint |-> endpoint, requestSize |-> requestSize,
              responseSize |-> estimatedResponseSize(requestSize),
              duration |-> 1000],
             PricingRules[tierName]).totalPrice
    ELSE Dec(0, 1)

\* preHandler of a request of an identified tenant in real-time mode whose
\* balance covers the estimate: the context, and preCheckCredits with the
\* estimate of estimateRequestCost.
PricedPreHandler(endpoint, requestSize) ==
    /\ priced.phase \in {"none", "completed"}
    /\ priced' =
           [NoPriced EXCEPT
               !.phase = "handler",
               !.endpoint = endpoint,
               !.requestSize = requestSize,
               !.estimate = estimateCost(endpoint, requestSize, defaultPricingTier),
               !.lookupFailed = ~tierFound(defaultPricingTier)]
    /\ pricingCache' = cacheAfterLookup(defaultPricingTier)
    /\ UNCHANGED <<pricingTier, calculation>>

\* The route handler ran and the response was sent.
PricedHandler ==
    /\ priced.phase = "handler"
    /\ priced' = [priced EXCEPT !.phase = "post"]
    /\ UNCHANGED <<pricingTier, pricingCache, calculation>>

\* postHandler: calculateUsageMetrics logs a failure of calculateCost and
\* leaves creditsCost undefined; deductCredits is called when creditsCost is
\* set.
PricedPostHandler(responseSize, duration) ==
    /\ priced.phase = "post"
    /\ priced' =
           IF tierFound(defaultPricingTier)
           THEN [priced EXCEPT
                    !.phase = "completed",
                    !.creditsCost =
                        performPricingCalculation(
                            [endpoint |-> priced.endpoint,
                             requestSize |-> priced.requestSize,
                             responseSize |-> responseSize,
                             duration |-> duration],
                            PricingRules[defaultPricingTier]).totalPrice,
                    !.hasCost = TRUE,
                    !.charged = TRUE]
           ELSE [priced EXCEPT !.phase = "completed", !.lookupFailed = TRUE]
    /\ pricingCache' = cacheAfterLookup(defaultPricingTier)
    /\ UNCHANGED <<pricingTier, calculation>>

(***************************************************************************)
(* Specifications.                                                         *)
(***************************************************************************)
(***************************************************************************)
(* The read path of BlockchainService: verifyEthereumAnchorEnhanced and    *)
(* batchVerifyEthereumAnchors, both                                         *)
(* ethereumCircuitBreaker.execute(() => withRetry(raw)).  One caller (1)   *)
(* and one hash.  The clock of the model ends long before the 600 s of a   *)
(* cached verification would.                                              *)
(***************************************************************************)
\* What the chain's RPC does with getAnchor: it answers a block number > 0,
\* it answers 0, or the call fails.
RpcModes == {"anchored", "notAnchored", "fails"}

\* pc: idle, guard (before breaker.execute) or retry (inside withRetry);
\* raw: what the last raw call resolved with; rpcDown: an RPC call of this
\* call failed; ret: how the last call ended; rpcCalls: RPC calls made by the
\* call; rpcFailed: history, the read-path calls in a row whose RPC call
\* failed.
NoVerify ==
    [pc |-> "idle", op |-> "none", configured |-> TRUE, raw |-> "none",
     rpcDown |-> FALSE, ret |-> "none", rpcCalls |-> 0, rpcFailed |-> 0]

VerifyInit ==
    /\ verifyCache = "none"
    /\ chainRpc = "anchored"
    /\ verify = NoVerify

\* The message fragments of the model that contain the word.
Substrings == {<<"RPC timeout", "RPC">>, <<"network unreachable", "network">>}

\* message.includes(word)
includes(message, word) ==
    \E i \in 1..Len(message) : <<message[i], word>> \in Substrings

\* error.message.includes('RPC') || error.message.includes('network')
expectedErrors(error) ==
    includes(error.message, "RPC") \/ includes(error.message, "network")

\* new Error('Ethereum configuration not available')
ConfigurationError ==
    [name |-> "Error", message |-> <<"Ethereum configuration not available">>]

\* { maxAttempts: 3, baseDelay: 2000 } over DEFAULT_RETRY_OPTIONS
VerifyRetryOptions ==
    [maxAttempts |-> 3, baseDelay |-> 2000, maxDelay |-> maxDelay,
     backoffMultiplier |-> backoffMultiplier, jitter |-> TRUE]

\* cacheService.get has parsed the value already; JSON.parse of the parsed
\* object throws, the catch logs, and null is returned.
getCachedVerification(cache) == "none"

\* cacheService.setex: CacheService has get, set, del, exists, increment,
\* publish and subscribe, and no setex; the TypeError is caught and logged and
\* the key is not written.
cacheVerification(cache, result) == cache

RunsRegardless(c) == TRUE

\* execute got past the OPEN check and invokes the operation it was given.
OperationRuns(c) == call'[c].pc = "inflight"

\* The promise of withRetry has settled.
Settled(pcv) == pcv = "done"

RpcChange(mode) ==
    /\ mode # chainRpc
    /\ chainRpc' = mode
    /\ UNCHANGED <<verifyCache, verify, breakerVars, retryVars>>

\* verifyEthereumAnchorEnhanced up to breaker.execute.
VerifyEnhanced(configured) ==
    /\ verify.pc = "idle"
    /\ LET cached == getCachedVerification(verifyCache)
       IN IF cached # "none"
          THEN verify' = [verify EXCEPT !.op = "single", !.ret = cached,
                                        !.raw = "none", !.rpcDown = FALSE,
                                        !.rpcCalls = 0]
          ELSE verify' = [verify EXCEPT !.pc = "guard", !.op = "single",
                                        !.configured = configured,
                                        !.raw = "none", !.rpcDown = FALSE,
                                        !.ret = "none", !.rpcCalls = 0]
    /\ UNCHANGED <<verifyCache, chainRpc, breakerVars, retryVars>>

\* batchVerifyEthereumAnchors up to breaker.execute.
BatchVerify(configured) ==
    /\ verify.pc = "idle"
    /\ verify' = [verify EXCEPT
           !.pc = IF configured THEN "guard" ELSE "idle",
           !.op = "batch", !.configured = configured, !.raw = "none",
           !.rpcDown = FALSE, !.rpcCalls = 0,
           !.ret = IF configured THEN "none" ELSE "Error"]
    /\ UNCHANGED <<verifyCache, chainRpc, breakerVars, retryVars>>

\* ethereumCircuitBreaker.execute(async () => withRetry(...)): the breaker
\* first, and withRetry only when the breaker invokes the operation.
GuardedExecute ==
    /\ verify.pc = "guard"
    /\ Execute(1)
    /\ IF OperationRuns(1)
       THEN /\ WithRetry(VerifyRetryOptions)
            /\ verify' = [verify EXCEPT !.pc = "retry"]
       ELSE /\ UNCHANGED retryVars
            /\ verify' = [verify EXCEPT !.pc = "idle",
                                        !.ret = "CircuitBreakerOpenError"]
    /\ UNCHANGED <<verifyCache, chainRpc>>

RawInvoke ==
    /\ verify.pc = "retry"
    /\ RetryInvoke
    /\ UNCHANGED <<verifyVars, breakerVars>>

\* The raw call settles.  verifyEthereumAnchor throws when the chain is not
\* configured and otherwise catches everything: a failed RPC call resolves as
\* { anchored: false }.  In the batch, new ethers.Contract may throw; the RPC
\* calls are under Promise.allSettled.
RawSettle ==
    /\ verify.pc = "retry"
    /\ retryPc = "await"
    /\ \/ /\ verify.op = "single"
          /\ ~verify.configured
          /\ \E random \in Randoms : RetryReject(ConfigurationError, random)
          /\ UNCHANGED verify
       \/ /\ verify.op = "batch"
          /\ \E error \in OperationErrors, random \in Randoms :
                 RetryReject(error, random)
          /\ UNCHANGED verify
       \/ /\ verify.configured
          /\ RetryResolve
          /\ verify' = [verify EXCEPT
                 !.raw = IF chainRpc = "anchored" THEN "anchored"
                         ELSE "notAnchored",
                 !.rpcDown = (chainRpc = "fails"),
                 !.rpcCalls = @ + 1]
    /\ UNCHANGED <<verifyCache, chainRpc, breakerVars>>

RawWake ==
    /\ verify.pc = "retry"
    /\ RetryWake
    /\ UNCHANGED <<verifyVars, breakerVars>>

\* withRetry settled: onSuccess or onFailure of the breaker, then
\* cacheVerification and the return (or the throw).
GuardedSettle ==
    /\ verify.pc = "retry"
    /\ Settled(retryPc)
    /\ IF retryResult.kind = "returned"
       THEN /\ Succeed(1)
            /\ verifyCache' = IF verify.op = "single"
                              THEN cacheVerification(verifyCache, verify.raw)
                              ELSE verifyCache
            /\ verify' = [verify EXCEPT
                   !.pc = "idle", !.ret = verify.raw,
                   !.rpcFailed = IF verify.rpcDown
                                 THEN min(@ + 1, failureThreshold) ELSE 0]
       ELSE /\ Fail(1, expectedErrors(retryResult.error))
            /\ verify' = [verify EXCEPT !.pc = "idle", !.ret = "Error",
                                        !.rpcFailed = 0]
            /\ UNCHANGED verifyCache
    /\ UNCHANGED <<chainRpc, retryVars>>

(***************************************************************************)
(* VerificationService.startVerification and the routes that start it.     *)
(* The anchoring, the webhook and the log after the final status update    *)
(* write no status.                                                        *)
(***************************************************************************)
\* Retries requested for one submission.
MaxRetries == 1

Subs == {1, 2}

NoVerification == [pc |-> "idle", allValid |-> FALSE]

SubmissionInit ==
    /\ submissionStatus = [s \in Subs |-> "none"]
    /\ verification = [s \in Subs |-> NoVerification]
    /\ retryReply = [s \in Subs |-> "none"]
    /\ retries = [s \in Subs |-> 0]

\* POST /: the submission is created (status PENDING) and startVerification
\* is triggered without being awaited.
CreateSubmission(s) ==
    /\ submissionStatus[s] = "none"
    /\ submissionStatus' = [submissionStatus EXCEPT ![s] = "PENDING"]
    /\ verification' = [verification EXCEPT ![s].pc = "start"]
    /\ UNCHANGED <<retryReply, retries>>

\* The first update of startVerification; when it throws, the catch rethrows.
StartVerification(s, dbOk) ==
    /\ verification[s].pc = "start"
    /\ IF dbOk
       THEN /\ submissionStatus' = [submissionStatus EXCEPT ![s] = "PROCESSING"]
            /\ verification' = [verification EXCEPT ![s].pc = "downloadSubmissionFiles"]
       ELSE /\ verification' = [verification EXCEPT ![s].pc = "idle"]
            /\ UNCHANGED submissionStatus
    /\ UNCHANGED <<retryReply, retries>>

\* The step after each step of the try block.
NextStep ==
    [downloadSubmissionFiles |-> "validateMetadata",
     validateMetadata |-> "extractProofs",
     extractProofs |-> "verifyProofs",
     verifyProofs |-> "createProofRecords",
     createProofRecords |-> "update"]

\* One awaited step; when it throws, the catch block rethrows a new Error and
\* writes nothing.  allValid is what verifyProofs found.
VerificationStep(s, ok, allValid) ==
    /\ verification[s].pc \in DOMAIN NextStep
    /\ verification' = [verification EXCEPT ![s] =
           IF ~ok THEN [@ EXCEPT !.pc = "idle"]
           ELSE [pc |-> NextStep[@.pc],
                 allValid |-> IF @.pc = "verifyProofs" THEN allValid
                              ELSE @.allValid]]
    /\ UNCHANGED <<submissionStatus, retryReply, retries>>

\* The final update of the status.
FinalUpdate(s, dbOk) ==
    /\ verification[s].pc = "update"
    /\ verification' = [verification EXCEPT ![s].pc = "idle"]
    /\ submissionStatus' =
           IF dbOk
           THEN [submissionStatus EXCEPT ![s] =
                    IF verification[s].allValid THEN "VERIFIED" ELSE "FAILED"]
           ELSE submissionStatus
    /\ UNCHANGED <<retryReply, retries>>

\* POST /:id/retry.
RetryRoute(s) ==
    /\ submissionStatus[s] # "none"
    /\ retries[s] < MaxRetries
    /\ retries' = [retries EXCEPT ![s] = @ + 1]
    /\ IF submissionStatus[s] = "PROCESSING"
       THEN /\ retryReply' = [retryReply EXCEPT ![s] = "409"]
            /\ UNCHANGED <<submissionStatus, verification>>
       ELSE /\ retryReply' = [retryReply EXCEPT ![s] = "200"]
            /\ submissionStatus' = [submissionStatus EXCEPT ![s] = "PENDING"]
            /\ verification' = [verification EXCEPT ![s].pc = "start"]

Init ==
    /\ LedgerInit /\ PipelineInit /\ BreakerInit /\ RetryInit /\ AnchorInit
    /\ QueueInit /\ PricingInit /\ VerifyInit /\ SubmissionInit

AddStep(p) == AddFind(p) \/ AddCreate(p) \/ AddUpdate(p) \/ AddCommit(p)

DeductStep(p) == DeductFind(p) \/ DeductUpdate(p) \/ DeductCommit(p)

GetBalanceStep(p) ==
    GetBalanceCached(p) \/ GetBalanceFind(p) \/ GetBalanceCreate(p)
        \/ GetBalanceSetex(p)

SetActiveStep(p) == SetActiveUpdate(p) \/ SetActiveFind(p) \/ SetActiveRecord(p)

\* The ledger under direct concurrent calls.
LedgerNext ==
    /\ \/ \E p \in Procs, amount \in Amounts : BeginAdd(p, amount)
       \/ \E p \in Procs, amount \in Amounts : BeginDeduct(p, amount)
       \/ \E p \in Procs : BeginGetBalance(p)
       \/ \E p \in Procs, active \in BOOLEAN : BeginSetActive(p, active)
       \/ \E p \in Procs : AddStep(p)
       \/ \E p \in Procs : DeductStep(p)
       \/ \E p \in Procs : GetBalanceStep(p)
       \/ \E p \in Procs : SetActiveStep(p)
       \/ CacheExpire
    /\ UNCHANGED <<pipelineVars, breakerVars, retryVars, anchorVars, queueVars, pricingVars,
                   verifyVars, submissionVars>>

Spec == Init /\ [][LedgerNext]_vars

\* Requests through the middleware, with top-ups of the tenant's account.
PipelineNext ==
    \/ /\ \/ \E p \in Procs, amount \in Amounts : BeginAdd(p, amount)
          \/ \E p \in Procs : AddStep(p)
          \/ \E p \in Procs : DeductStep(p)
          \/ \E p \in Procs : GetBalanceStep(p)
          \/ CacheExpire
       /\ UNCHANGED <<pipelineVars, breakerVars, retryVars, anchorVars, queueVars, pricingVars,
                   verifyVars, submissionVars>>
    \/ /\ \/ \E p \in Procs, url \in Urls, identified \in BOOLEAN :
                 BeginRequest(p, url, identified)
          \/ \E p \in Procs, estimate \in Costs : PreHandler(p, estimate)
          \/ \E p \in Procs : PreCheck(p)
          \/ \E p \in Procs : Handler(p)
          \/ \E p \in Procs, cost \in Costs \cup {NoCost} : PostHandler(p, cost)
          \/ \E p \in Procs : PostDone(p)
       /\ UNCHANGED <<breakerVars, retryVars, anchorVars, queueVars, pricingVars,
                   verifyVars, submissionVars>>

SpecPipeline == Init /\ [][PipelineNext]_vars

BreakerNext ==
    /\ \/ Tick
       \/ \E c \in Callers : Execute(c)
       \/ \E c \in Callers : Succeed(c)
       \/ \E c \in Callers, expected \in BOOLEAN : Fail(c, expected)
       \/ Reset
    /\ UNCHANGED <<ledgerVars, pipelineVars, retryVars, anchorVars, queueVars, pricingVars,
                   verifyVars, submissionVars>>

SpecBreaker == Init /\ [][BreakerNext]_vars

\* One caller whose execute calls follow one another, and no manual reset.
BreakerSoloNext ==
    /\ \/ Tick
       \/ Execute(1)
       \/ Succeed(1)
       \/ \E expected \in BOOLEAN : Fail(1, expected)
    /\ UNCHANGED <<ledgerVars, pipelineVars, retryVars, anchorVars, queueVars,
                   pricingVars,
                   verifyVars, submissionVars>>

SpecBreakerSolo == Init /\ [][BreakerSoloNext]_vars

RetryNext ==
    /\ \/ \E opts \in RetryOptions : WithRetry(opts)
       \/ RetryInvoke
       \/ RetryResolve
       \/ \E error \in OperationErrors, random \in Randoms :
             RetryReject(error, random)
       \/ RetryWake
    /\ UNCHANGED <<ledgerVars, pipelineVars, breakerVars, anchorVars, queueVars, pricingVars,
                   verifyVars, submissionVars>>

SpecRetry == Init /\ [][RetryNext]_vars

AnchorNext ==
    /\ \/ \E modes \in [Chains -> ChainModes], n \in 1..MaxResults :
             AnchorStart(modes, n)
       \/ AnchorIssue
       \/ \E c \in Chains : ChainFulfil(c)
       \/ \E c \in Chains : ChainReject(c)
       \/ AllSettled
       \/ \E dbOk \in BOOLEAN : AnchorUpdate(dbOk)
       \/ AnchorComplete
    /\ UNCHANGED <<ledgerVars, pipelineVars, breakerVars, retryVars, queueVars, pricingVars,
                   verifyVars, submissionVars>>

SpecAnchor == Init /\ [][AnchorNext]_vars

\* Every continuation that is ready runs, and every chain that responds at
\* all responds: the event loop of the process.
SpecAnchorFair == SpecAnchor /\ WF_vars(AnchorNext)

QueueNext ==
    /\ \/ logUsageAsync
       \/ \E key \in 1..MaxRecords : UsageDataExpire(key)
       \/ Brpop
       \/ WorkerGet
       \/ \E dbOk \in BOOLEAN : processUsageLog(dbOk)
       \/ WorkerDel
    /\ UNCHANGED <<ledgerVars, pipelineVars, breakerVars, retryVars, anchorVars,
                   pricingVars,
                   verifyVars, submissionVars>>

SpecQueue == Init /\ [][QueueNext]_vars

PricingNext ==
    /\ \/ \E tierName \in TierNames, active \in BOOLEAN :
             SetTierActive(tierName, active)
       \/ \E tierName \in TierNames : PricingCacheExpire(tierName)
       \/ \E params \in CostParams, tierName \in TierNames :
             calculateCost(params, tierName)
    /\ UNCHANGED <<ledgerVars, pipelineVars, breakerVars, retryVars, anchorVars,
                   queueVars, verifyVars, submissionVars>>

SpecPricing == Init /\ [][PricingNext]_vars

\* Requests priced by the default tier while the operator changes the tiers.
PricedNext ==
    /\ \/ \E tierName \in TierNames, active \in BOOLEAN :
             SetTierActive(tierName, active)
       \/ \E tierName \in TierNames : PricingCacheExpire(tierName)
       \/ \E endpoint \in Endpoints, requestSize \in Sizes :
             PricedPreHandler(endpoint, requestSize)
       \/ PricedHandler
       \/ \E responseSize \in Sizes, duration \in Durations :
             PricedPostHandler(responseSize, duration)
    /\ UNCHANGED <<ledgerVars, pipelineVars, breakerVars, retryVars, anchorVars,
                   queueVars, verifyVars, submissionVars>>

SpecPriced == Init /\ [][PricedNext]_vars

VerifyNext ==
    /\ \/ Tick /\ UNCHANGED <<retryVars, verifyVars>>
       \/ \E mode \in RpcModes : RpcChange(mode)
       \/ \E configured \in BOOLEAN : VerifyEnhanced(configured)
       \/ \E configured \in BOOLEAN : BatchVerify(configured)
       \/ GuardedExecute
       \/ RawInvoke
       \/ RawSettle
       \/ RawWake
       \/ GuardedSettle
    /\ UNCHANGED <<ledgerVars, pipelineVars, anchorVars, queueVars, pricingVars,
                   submissionVars>>

SpecVerify == Init /\ [][VerifyNext]_vars

\* The steps of startVerification(s) that the event loop runs by itself.
VerificationRuns(s) ==
    /\ \/ \E dbOk \in BOOLEAN : StartVerification(s, dbOk)
       \/ \E ok, allValid \in BOOLEAN : VerificationStep(s, ok, allValid)
       \/ \E dbOk \in BOOLEAN : FinalUpdate(s, dbOk)
    /\ UNCHANGED <<ledgerVars, pipelineVars, breakerVars, retryVars, anchorVars,
                   queueVars, pricingVars, verifyVars>>

SubmissionNext ==
    \/ \E s \in Subs : VerificationRuns(s)
    \/ /\ \/ \E s \in Subs : CreateSubmission(s)
          \/ \E s \in Subs : RetryRoute(s)
       /\ UNCHANGED <<ledgerVars, pipelineVars, breakerVars, retryVars,
                      anchorVars, queueVars, pricingVars, verifyVars>>

SpecSubmission == Init /\ [][SubmissionNext]_vars

\* A step of startVerification that can run does run.
SpecSubmissionFair ==
    SpecSubmission /\ WF_vars(VerificationRuns(1)) /\ WF_vars(VerificationRuns(2))

(***************************************************************************)
(* The claims about the credit ledger (specification Spec).                *)
(***************************************************************************)
LedgerRows ==
    {i \in DOMAIN creditTransactions :
        creditTransactions[i].type \in {"TOPUP", "USAGE"}}

Quiescent == \A p \in Procs : pc[p] = "idle"

\* C1: when no ledger call is in flight, the balance is the initial balance (0,
\* the account is created empty) plus the accepted credits minus the accepted
\* deducts, and the ledger holds one row per accepted call.
C1_NoLostUpdate ==
    Quiescent =>
        /\ userCredit.balance = hist.credits - hist.deducts
        /\ Cardinality(LedgerRows) = hist.accepted

\* C2: in every reachable state of the account,
\* balance = totalAllocated - totalUsed.
C2_BalanceReconciled ==
    userCredit.exists =>
        userCredit.balance = userCredit.totalAllocated - userCredit.totalUsed

\* C3: a deductCredits call that reads an active account whose balance is less
\* than its amount ends there with InsufficientCreditsError(required = amount,
\* available = the balance), and the step writes neither the account row nor a
\* transaction row.
C3_InsufficientRejectedBeforeWrite ==
    [][\A p \in Procs :
          (/\ pc[p] = "ded_find"
           /\ pc'[p] # "ded_find"
           /\ userCredit.exists
           /\ userCredit.isActive
           /\ userCredit.balance < arg[p])
          => /\ outcome'[p] = [kind |-> "InsufficientCreditsError",
                               required |-> arg[p],
                               available |-> userCredit.balance]
             /\ pc'[p] = ret[p]
             /\ userCredit' = userCredit
             /\ creditTransactions' = creditTransactions]_vars

\* balance 10, deduct 15: rejected with required 15 and available 10, and the
\* balance is still 10 with the one row of the credit.
C3_Witness ==
    \E p \in Procs :
        /\ outcome[p] = [kind |-> "InsufficientCreditsError", required |-> 15,
                         available |-> 10]
        /\ userCredit.balance = 10
        /\ userCredit.totalUsed = 0
        /\ Len(creditTransactions) = 1

\* C4: the balance of the account, and the balance every ledger row records,
\* is never below 0.
C4_BalanceNeverNegative ==
    /\ userCredit.balance >= 0
    /\ \A i \in DOMAIN creditTransactions :
           creditTransactions[i].balanceAfter >= 0

\* Interleaved deducts were accepted for more than was ever credited, and the
\* balance is still not negative.
C4_Witness ==
    /\ hist.deducts > hist.credits
    /\ userCredit.balance = 0
    /\ Quiescent

\* C5: a step changes the balance exactly when it appends one TOPUP or USAGE
\* row, and that row's balanceBefore and balanceAfter are the balance before
\* and after the step and differ by its amount.
C5_RowMatchesChange ==
    [][LET n == Len(creditTransactions)
           m == Len(creditTransactions')
           row == creditTransactions'[m]
       IN  /\ userCredit'.balance # userCredit.balance
                => m = n + 1 /\ row.type \in {"TOPUP", "USAGE"}
           /\ (m # n /\ row.type \in {"TOPUP", "USAGE"})
                => /\ m = n + 1
                   /\ row.balanceBefore = userCredit.balance
                   /\ row.balanceAfter = userCredit'.balance
                   /\ row.balanceAfter - row.balanceBefore
                          \in {row.amount, 0 - row.amount}]_vars

(***************************************************************************)
(* The claims about the metering pipeline (specification SpecPipeline).    *)
(***************************************************************************)
\* C6: a request whose pre-check found the balance lower than the estimated
\* cost is answered 402 and its business logic never runs.
C6_FailedPrecheckAborts ==
    \A p \in Procs :
        request[p].precheckFailed
            => /\ pc[p] # "handler"
               /\ ~request[p].handlerRan
               /\ request[p].statusCode = 402

UsageRows(id) ==
    {i \in DOMAIN creditTransactions :
        /\ creditTransactions[i].type = "USAGE"
        /\ creditTransactions[i].reference = id}

\* C7: every billable request whose business logic ran and whose post-handler
\* has ended (its pre-check having failed, or its actual cost having been
\* computed) has exactly one USAGE row, and the row of a settled request is
\* for its actual cost.
C7_ExactlyOneCharge ==
    /\ \A id \in served : Cardinality(UsageRows(id)) = 1
    /\ \A p \in Procs :
           (pc[p] = "post_done" /\ outcome[p].kind = "ok")
               => \E i \in UsageRows(request[p].id) :
                      creditTransactions[i].amount = request[p].cost

(***************************************************************************)
(* The claims about the circuit breaker (specification SpecBreaker).       *)
(***************************************************************************)
\* The execute call of c ends in this step with a classified failure.
ClassifiedFailure(c) ==
    /\ call[c].pc = "inflight"
    /\ call'[c].pc = "idle"
    /\ call'[c].last = "expectedError"

\* C8: a classified failure increments failureCount by one; in CLOSED the
\* breaker opens, with nextAttemptTime = now + recoveryTimeout, exactly when
\* the count reaches failureThreshold, so a CLOSED breaker always has fewer
\* than failureThreshold failures counted.
C8_OpensAtThreshold ==
    /\ [](state = "CLOSED" => failureCount < failureThreshold)
    /\ [][\A c \in Callers :
             ClassifiedFailure(c)
             => /\ failureCount' = failureCount + 1
                /\ state = "CLOSED"
                   => IF failureCount + 1 >= failureThreshold
                      THEN /\ state' = "OPEN"
                           /\ nextAttemptTime' = now + recoveryTimeout
                      ELSE /\ state' = "CLOSED"
                           /\ nextAttemptTime' = nextAttemptTime]_vars

\* Three classified failures in a row, the last one after time has passed,
\* have opened the breaker.
C8_Witness ==
    /\ state = "OPEN"
    /\ failureCount = failureThreshold
    /\ lastFailureTime > 0
    /\ nextAttemptTime = lastFailureTime + recoveryTimeout

\* The caller c makes an execute call in this step.
ExecuteCalled(c) == call[c].pc = "idle" /\ call'[c] # call[c]

\* C9: an execute call on an OPEN breaker before nextAttemptTime is rejected
\* with CircuitBreakerOpenError without invoking the operation and leaves
\* state, failureCount and nextAttemptTime as they were; at or after
\* nextAttemptTime it moves the breaker to HALF_OPEN and invokes the operation.
C9_OpenRejectsUntilDeadline ==
    [][\A c \in Callers :
          (state = "OPEN" /\ ExecuteCalled(c))
          => IF now < nextAttemptTime
             THEN /\ call'[c] = IdleCall("CircuitBreakerOpenError")
                  /\ UNCHANGED <<state, failureCount, nextAttemptTime>>
             ELSE /\ state' = "HALF_OPEN"
                  /\ call'[c].pc = "inflight"]_vars

\* One caller was rejected while the breaker was OPEN, and the other, calling
\* exactly at nextAttemptTime, is the probe in flight.
C9_Witness ==
    /\ state = "HALF_OPEN"
    /\ now = nextAttemptTime
    /\ \E c \in Callers : call[c].last = "CircuitBreakerOpenError"
    /\ \E c \in Callers : call[c].pc = "inflight" /\ call[c].admitted = "HALF_OPEN"

\* C10: at most one operation invoked while the breaker was HALF_OPEN is in
\* flight at any time.
C10_SingleProbe ==
    Cardinality({c \in Callers :
                    call[c].pc = "inflight" /\ call[c].admitted = "HALF_OPEN"}) <= 1

\* The probe of caller c settles in this step with the given result.
ProbeSettles(c, result) ==
    /\ call[c].pc = "inflight"
    /\ call[c].probe
    /\ call'[c] = IdleCall(result)

\* C11: an execute call on an OPEN breaker at or after nextAttemptTime invokes
\* its operation as the HALF_OPEN probe, and when the probe's operation
\* succeeds the breaker is CLOSED with failureCount = 0 right after.
C11_ProbeSuccessCloses ==
    [][\A c \in Callers :
          /\ (state = "OPEN" /\ ExecuteCalled(c) /\ now >= nextAttemptTime)
             => call'[c].pc = "inflight" /\ call'[c].probe
          /\ ProbeSettles(c, "success")
             => state' = "CLOSED" /\ failureCount' = 0]_vars

\* C12: when the probe's operation fails the breaker is OPEN right after with
\* nextAttemptTime = time of the failure + recoveryTimeout; it does not stay
\* in HALF_OPEN.
C12_ProbeFailureReopens ==
    [][\A c \in Callers :
          (ProbeSettles(c, "expectedError") \/ ProbeSettles(c, "error"))
          => /\ state' = "OPEN"
             /\ nextAttemptTime' = now + recoveryTimeout]_vars

(***************************************************************************)
(* The claims about withRetry (specification SpecRetry).                   *)
(***************************************************************************)
\* min(baseDelay * backoffMultiplier^(k-1), maxDelay) for the options in use.
NominalDelay(k) ==
    min(config.baseDelay * pow(config.backoffMultiplier, k - 1), config.maxDelay)

\* d is the wait the options prescribe after failed attempt k.
PrescribedWait(d, k) ==
    IF config.jitter
    THEN 2 * d >= NominalDelay(k) /\ d <= NominalDelay(k)
    ELSE d = NominalDelay(k)

\* C13: the wait between failed attempt k and attempt k+1 is exactly
\* min(baseDelay * backoffMultiplier^(k-1), maxDelay) without jitter and lies
\* between half of it and it with jitter; with 3 attempts, baseDelay 1000 and
\* multiplier 2 a call that fails twice and then succeeds has waited 1000 ms
\* and then 2000 ms.
C13_BackoffDelays ==
    /\ \A k \in 1..Len(sleeps) : PrescribedWait(sleeps[k], k)
    /\ retryPc = "sleep" => PrescribedWait(delay, attempt)
    /\ Len(sleeps) = (IF attempt = 0 THEN 0 ELSE attempt - 1)
    /\ (/\ retryResult = Returned
        /\ invocations = 3
        /\ ~config.jitter
        /\ config.maxDelay = maxDelay) => sleeps = <<1000, 2000>>

\* Without jitter, two failures and then a success: waits of 1000 and 2000.
C13_Witness ==
    /\ retryResult = Returned
    /\ ~config.jitter
    /\ invocations = 3
    /\ sleeps = <<1000, 2000>>

\* C14: the operation is never invoked more than maxAttempts times, and when
\* every attempt failed with a retryable error it was invoked exactly
\* maxAttempts times with maxAttempts - 1 sleeps, and withRetry fails with a
\* RetryExhausted failure carrying the attempt count and the last error.
C14_RetryExhausted ==
    /\ invocations <= config.maxAttempts
    /\ (/\ retryPc = "done"
        /\ retryResult.kind = "thrown"
        /\ lastError.name # "NonRetryableError")
       => /\ invocations = config.maxAttempts
          /\ Len(sleeps) = config.maxAttempts - 1
          /\ retryResult.error.name = "RetryExhausted"
          /\ retryResult.error.attempts = config.maxAttempts
          /\ retryResult.error.cause = lastError

\* C15: an attempt that fails with a NonRetryableError ends withRetry at once
\* with that same error, with no sleep and no further invocation.
C15_NonRetryableRethrown ==
    [][(/\ retryPc = "await"
        /\ retryPc' # "await"
        /\ lastError'.name = "NonRetryableError")
       => /\ retryResult' = Thrown(lastError')
          /\ retryPc' = "done"
          /\ sleeps' = sleeps
          /\ invocations' = invocations]_vars

\* The second of three attempts threw a NonRetryableError: one sleep, two
\* invocations, and the error itself came out.
C15_Witness ==
    /\ retryPc = "done"
    /\ config.maxAttempts = 3
    /\ invocations = 2
    /\ Len(sleeps) = 1
    /\ retryResult.kind = "thrown"
    /\ retryResult.error.name = "NonRetryableError"

(***************************************************************************)
(* The claims about anchoring (specifications SpecAnchor, SpecAnchorFair). *)
(***************************************************************************)
\* C16: the three anchor calls are issued together and all are awaited; the
\* settled outcome has one entry per chain, rejected with its error for a
\* chain whose call throws and fulfilled with the transaction hash for the
\* others, whose hashes are then on the proof rows; the call never throws.
C16_PerChainOutcome ==
    /\ (\E c \in Chains : anchorPromises[c].status # "none")
       => \A c \in Chains : anchorPromises[c].status # "none"
    /\ anchorPc \in {"update", "done"}
       => /\ DOMAIN anchorResults = Chains
          /\ Cardinality(DOMAIN anchorResults) = 3
          /\ \A c \in Chains :
                IF chainMode[c] \in {"throws", "unconfigured"}
                THEN /\ anchorResults[c].status = "rejected"
                     /\ anchorResults[c].value # ""
                ELSE anchorResults[c] = Fulfilled(c)
    /\ (anchorPc = "done" /\ anchorLog = "Blockchain anchoring completed")
       => \A c \in Chains :
             proofRows[c] = IF chainMode[c] = "ok" THEN Fulfilled(c).value ELSE ""
    /\ anchorPc = "done" => anchorReturn = "returned"
    /\ anchorReturn # "threw"

\* One chain threw and the two others anchored: the anchoring completed with
\* two transaction hashes on the proof rows.
C16_Witness ==
    /\ anchorPc = "done"
    /\ anchorLog = "Blockchain anchoring completed"
    /\ chainMode = [c \in Chains |-> IF c = "arbitrum" THEN "throws" ELSE "ok"]
    /\ anchorResults["arbitrum"].status = "rejected"
    /\ proofRows["ethereum"] # "" /\ proofRows["starknet"] # ""
    /\ proofRows["arbitrum"] = ""

\* C17: an anchoring whose calls are issued always reaches its terminal
\* state, even when a chain's call never responds.
C17_HungChainDoesNotBlock ==
    (anchorPc = "settling") ~> (anchorPc = "done")

(***************************************************************************)
(* The claim about the usage queue (specification SpecQueue).              *)
(***************************************************************************)
InSeq(x, seq) == \E k \in 1..Len(seq) : seq[k] = x

\* C18: every usage record that was queued is in the queue, in the hands of
\* the processing loop, or in the usage log: a failed processing attempt does
\* not drop it from both the queue and the log.
C18_QueuedRecordNotDropped ==
    \A key \in 1..(nextLogKey - 1) :
        \/ InSeq(key, usageQueue)
        \/ workerKey = key
        \/ InSeq(key, apiUsageLog)

(***************************************************************************)
(* The claims about pricing (specifications SpecPricing, SpecPriced).      *)
(***************************************************************************)
\* The Decimal d is a whole number of 0.00000001 credits.
WholeUnits(d) == 100000000 % d.den = 0

\* The Decimal d in units of 0.00000001 credits.
InUnits(d) == d.num * (100000000 \div d.den)

\* The example of the pricing rules: 2 KB in, 2 KB out, 2 s, standard tier.
ExampleCall ==
    /\ calculation.outcome = "returned"
    /\ calculation.tier = "standard"
    /\ calculation.params =
           [endpoint |-> "/api/v1/proofs", requestSize |-> 2048,
            responseSize |-> 2048, duration |-> 2000]

C20_TierNotFoundFailsRequest ==
    /\ priced.phase \in {"handler", "post"} => ~priced.lookupFailed
    /\ (priced.phase = "completed" /\ priced.lookupFailed)
       => priced.failure = "PricingTierNotFoundError"
    /\ (priced.phase = "completed" /\ priced.failure = "none")
       => priced.charged

(***************************************************************************)
(* The claim about the endpoints excluded from billing (SpecPipeline).     *)
(***************************************************************************)
\* The url is an API call outside the credit-management and usage-analytics
\* endpoints.
MeteredApiCall(url) ==
    /\ startsWith(url, <<"api", "v1">>)
    /\ ~startsWith(url, <<"api", "v1", "credits">>)
    /\ ~startsWith(url, <<"api", "v1", "usage">>)

\* C21: a call of an identified tenant to /api/v1/proofs (or another API
\* endpoint that is not excluded from billing) is not skipped by the
\* pre-handler: past the pre-handler it has a usage tracking context.
C21_ApiCallsMetered ==
    \A p \in Procs :
        (/\ request[p].identified
         /\ MeteredApiCall(request[p].url)
         /\ pc[p] \in {"handler", "post"})
        => request[p].context # "none"

(***************************************************************************)
(* More claims about the circuit breaker.                                  *)
(***************************************************************************)
\* C22 (SpecBreakerSolo): an execute call whose operation fails with an
\* unclassified error leaves state, failureCount, lastFailureTime and
\* nextAttemptTime as they were before the call; before a call that was made
\* on an OPEN breaker past nextAttemptTime the state was OPEN.
C22_UnclassifiedErrorFrame ==
    [][(call[1].pc = "inflight" /\ call'[1] = IdleCall("error"))
       => /\ state' = IF call[1].probe THEN "OPEN" ELSE call[1].admitted
          /\ UNCHANGED <<failureCount, lastFailureTime, nextAttemptTime>>]_vars

\* The call of caller c, admitted while the breaker was CLOSED, settles in
\* this step, and the breaker has opened since.
LateCompletion(c) ==
    /\ call[c].pc = "inflight"
    /\ call[c].admitted = "CLOSED"
    /\ state \in {"OPEN", "HALF_OPEN"}
    /\ call'[c].last \in {"success", "expectedError"}

\* C28 (SpecBreaker): the late completion of a call admitted while CLOSED
\* does not take the breaker out of HALF_OPEN, does not close it, does not
\* reset failureCount and does not move nextAttemptTime.
C28_LateCompletionIgnored ==
    [][\A c \in Callers :
          LateCompletion(c)
          => /\ state' # "CLOSED"
             /\ state = "HALF_OPEN" => state' = "HALF_OPEN"
             /\ failureCount' >= failureCount
             /\ nextAttemptTime' = nextAttemptTime]_vars

(***************************************************************************)
(* More claims about the credit ledger.                                    *)
(***************************************************************************)
\* C26 (Spec): an addCredits call that found the account suspended
\* (isActive = false) leaves the account row and the transaction log
\* unchanged when it ends.
C26_SuspendedAccountRejectsCredit ==
    [][\A p \in Procs :
          (/\ pc[p] = "add_commit"
           /\ pc'[p] # "add_commit"
           /\ snap[p].exists
           /\ ~snap[p].isActive)
          => UNCHANGED <<userCredit, creditTransactions>>]_vars

\* C27 (Spec): a getBalance call answered from the balance cache returns the
\* committed balance of the account: no balance from before a committed
\* addCredits or deductCredits.
C27_NoStaleCachedBalance ==
    [][\A p \in Procs :
          (/\ pc[p] = "gb_cache"
           /\ pc'[p] # "gb_cache"
           /\ balanceCache.cached)
          => outcome'[p].available = userCredit.balance]_vars

(***************************************************************************)
(* Claims about the guarded read path.                                     *)
(***************************************************************************)
InRetryLoop == retryPc \in {"loop", "await", "sleep"}

\* C23 (SpecVerify): a guarded call made while the breaker is OPEN and
\* now < nextAttemptTime ends with CircuitBreakerOpenError and starts no
\* retry loop, no raw call and no sleep; a retry loop runs only inside a call
\* that the breaker admitted while CLOSED or HALF_OPEN.
C23_OpenBreakerShortCircuits ==
    [][/\ (/\ verify.pc = "guard"
           /\ state = "OPEN"
           /\ now < nextAttemptTime
           /\ verify' # verify)
          => /\ verify'.pc = "idle"
             /\ verify'.ret = "CircuitBreakerOpenError"
             /\ UNCHANGED retryVars
       /\ InRetryLoop'
          => /\ call'[1].pc = "inflight"
             /\ call'[1].admitted \in {"CLOSED", "HALF_OPEN"}]_vars

C23_Witness ==
    /\ verify.ret = "CircuitBreakerOpenError"
    /\ state = "OPEN"
    /\ now < nextAttemptTime
    /\ ~InRetryLoop

\* C24 (SpecVerify): once failureThreshold read-path calls in a row have
\* met a failing RPC, the chain's breaker is no longer CLOSED.
C24_FailingRpcOpensBreaker ==
    verify.rpcFailed >= failureThreshold => state # "CLOSED"

\* C25 (SpecVerify): the verifyAnchor call that follows one which obtained
\* its result from the chain is a cache hit: it returns the stored result at
\* once and leaves the breaker, the retry loop and the RPC alone.
C25_SecondCallHitsCache ==
    [][(/\ verify.pc = "idle"
        /\ verify.op = "single"
        /\ verify.ret \in {"anchored", "notAnchored"}
        /\ verify'.op = "single"
        /\ verify' # verify)
       => /\ verify'.pc = "idle"
          /\ verify'.ret = verify.ret
          /\ UNCHANGED <<breakerVars, retryVars>>]_vars

\* C29 (SpecVerify): failureCount changes only when the retry loop of a
\* guarded call has ended, by at most 1 per guarded call and, upwards, only
\* after maxAttempts raw calls; the breaker is OPEN only with failureThreshold
\* failures counted.
C29_OneFailurePerGuardedCall ==
    [][/\ failureCount' <= failureCount + 1
       /\ failureCount' # failureCount => retryPc = "done"
       /\ failureCount' > failureCount => invocations = config.maxAttempts
       /\ state' = "OPEN" => failureCount' >= failureThreshold]_vars

C29_Witness ==
    /\ state = "OPEN"
    /\ failureCount = failureThreshold
    /\ verify.pc = "idle"
    /\ verify.ret = "Error"
    /\ invocations = 3

(***************************************************************************)
(* Claims about the verification of a submission.                          *)
(***************************************************************************)
\* C30 (SpecSubmissionFair): a submission whose status is PROCESSING
\* eventually has the status VERIFIED or FAILED.
C30_ProcessingEnds ==
    \A s \in Subs :
        (submissionStatus[s] = "PROCESSING")
            ~> (submissionStatus[s] \in {"VERIFIED", "FAILED"})

====
